---- MODULE Spec2Model ----
(***************************************************************************)
(* Model of plugins/modules/authselect.py: the Ansible module that reads   *)
(* the state of authselect ("authselect current --raw") and reports it.    *)
(*                                                                         *)
(* Python strings are sequences of one-character strings, so that the      *)
(* regular expressions of get_authselect_state are computed character by   *)
(* character.  Python values are tagged records (None, str, bool, int,     *)
(* list, dict); a key that a result dict does not hold is Missing.         *)
(***************************************************************************)
EXTENDS Integers, Sequences, FiniteSets, TLC

VARIABLES
    store,       \* what "authselect current --raw" answers on this host: [rc, out, err]
    store0,      \* the store as it was before the first invocation
    profile,     \* module.params['profile']
    features,    \* module.params['features'] (NoneV when not given)
    check_mode,  \* module.check_mode of the running invocation
    pc,          \* position of the running invocation: "start", "queried", "done"
    resp,        \* (rc, std_out, std_err) returned by run_command, NoResp before
    cmds,        \* argv of every external command the running invocation issued
    outcome,     \* how the running invocation ended, NoOutcome while running
    hist         \* the finished earlier invocations, oldest first

vars == <<store, store0, profile, features, check_mode, pc, resp, cmds, outcome, hist>>

----------------------------------------------------------------------------
(* Bounds of the model *)

MaxLen == 4        \* longest generated stdout, in characters
MaxRuns == 2       \* invocations in sequence against the same host

----------------------------------------------------------------------------
(* Python values *)

NoneV == [t |-> "None"]
Missing == [t |-> "missing"]
StrV(s) == [t |-> "str", s |-> s]
BoolV(b) == [t |-> "bool", b |-> b]
IntV(n) == [t |-> "int", n |-> n]
ListV(l) == [t |-> "list", l |-> l]
DictV(p, f, m) == [t |-> "dict", profile |-> p, features |-> f, msg |-> m]

----------------------------------------------------------------------------
(* Strings of the source and of the examples *)

NoConfigLiteral == <<"N", "o", " ", "e", "x", "i", "s", "t", "i", "n", "g", " ", "c", "o", "n", "f", "i", "g", "u", "r", "a", "t", "i", "o", "n", " ", "d", "e", "t", "e", "c", "t", "e", "d", ".", "\n">>
OkMsg == <<"O", "K">>
FailPrefix == <<"F", "a", "i", "l", "e", "d", " ", "t", "o", " ", "e", "x", "e", "c", "u", "t", "e", " ", "a", "u", "t", "h", "s", "e", "l", "e", "c", "t", " ", "c", "o", "m", "m", "a", "n", "d", " ", "w", "i", "t", "h", " ", "'">>
FailSuffix == <<"'", ".">>
FailMe == <<"f", "a", "i", "l", " ", "m", "e">>
FailMeMsg == <<"Y", "o", "u", " ", "r", "e", "q", "u", "e", "s", "t", "e", "d", " ", "t", "h", "i", "s", " ", "t", "o", " ", "f", "a", "i", "l">>
QueryArgv == <<"/usr/bin/authselect", "current", "--raw">>

Sssd == <<"s", "s", "s", "d">>
WithSudo == <<"w", "i", "t", "h", "-", "s", "u", "d", "o">>
WithMkhomedir == <<"w", "i", "t", "h", "-", "m", "k", "h", "o", "m", "e", "d", "i", "r">>
ExampleStdout == <<"s", "s", "s", "d", " ", "w", "i", "t", "h", "-", "s", "u", "d", "o", " ", "w", "i", "t", "h", "-", "m", "k", "h", "o", "m", "e", "d", "i", "r", "\n">>
SssdLine == <<"s", "s", "s", "d", "\n">>
SssdSudoLine == <<"s", "s", "s", "d", " ", "w", "i", "t", "h", "-", "s", "u", "d", "o", "\n">>
Denied == <<"p", "e", "r", "m", "i", "s", "s", "i", "o", "n", " ", "d", "e", "n", "i", "e", "d">>

----------------------------------------------------------------------------
(* The re module, as far as the two patterns of get_authselect_state use it *)

\* \w : letters, digits and the underscore
WordChars ==
    {"a", "b", "c", "d", "e", "f", "g", "h", "i", "j", "k", "l", "m", "n", "o",
     "p", "q", "r", "s", "t", "u", "v", "w", "x", "y", "z", "A", "B", "C", "D",
     "E", "F", "G", "H", "I", "J", "K", "L", "M", "N", "O", "P", "Q", "R", "S",
     "T", "U", "V", "W", "X", "Y", "Z", "0", "1", "2", "3", "4", "5", "6", "7",
     "8", "9", "_"}

IsWord(c) == c \in WordChars

\* $ without re.MULTILINE: at the end, or right before a newline that ends the string
AtDollar(s, e) == e = Len(s) \/ (e = Len(s) - 1 /\ s[Len(s)] = "\n")

\* every way ^(\w+)\W+(.*)$ matches s from its start: <<p, q, e>> is
\* s[1..p] for \w+, s[p+1..p+q] for \W+, s[p+q+1..e] for .* (no newline)
MatchSet(s) ==
    {m \in (1..Len(s)) \X (1..Len(s)) \X (1..Len(s)) :
        /\ m[1] + m[2] <= m[3]
        /\ \A i \in 1..m[1] : IsWord(s[i])
        /\ \A i \in (m[1] + 1)..(m[1] + m[2]) : ~IsWord(s[i])
        /\ \A i \in (m[1] + m[2] + 1)..m[3] : s[i] # "\n"
        /\ AtDollar(s, m[3])}

\* the order in which the backtracking matcher tries them: greedy, left to right
Before(m, n) ==
    \/ m[1] > n[1]
    \/ m[1] = n[1] /\ m[2] > n[2]
    \/ m[1] = n[1] /\ m[2] = n[2] /\ m[3] >= n[3]

\* re.match(r'^(?P<profile>\w+)\W+(?P<features>.*)$', s): NoneV, or the two groups
ReMatch(s) ==
    IF MatchSet(s) = {} THEN NoneV
    ELSE LET m == CHOOSE x \in MatchSet(s) : \A y \in MatchSet(s) : Before(x, y)
         IN  [t |-> "match",
              profile |-> SubSeq(s, 1, m[1]),
              features |-> SubSeq(s, m[1] + m[2] + 1, m[3])]

\* re.compile(r'\W+').split(f): the pieces between the runs of non-word
\* characters, the empty pieces at both ends included
RECURSIVE SplitFrom(_, _, _, _)
SplitFrom(f, i, cur, acc) ==
    IF i > Len(f) THEN Append(acc, cur)
    ELSE IF IsWord(f[i]) THEN SplitFrom(f, i + 1, Append(cur, f[i]), acc)
    ELSE IF i > 1 /\ ~IsWord(f[i - 1]) THEN SplitFrom(f, i + 1, cur, acc)
    ELSE SplitFrom(f, i + 1, <<>>, Append(acc, cur))

ReSplit(f) == SplitFrom(f, 1, <<>>, <<>>)

\* str.rstrip("\n\r")
RECURSIVE RStrip(_)
RStrip(s) ==
    IF Len(s) > 0 /\ s[Len(s)] \in {"\n", "\r"} THEN RStrip(SubSeq(s, 1, Len(s) - 1))
    ELSE s

----------------------------------------------------------------------------
(* Result dicts and the ways an invocation ends *)

\* a result dict: the keys the module passes to exit_json or fail_json, and the
\* two keys RETURN documents for the state after execution, which no line sets
Result(changed, original_profile, feats, requested_profile, rc, stderr, msg, failed) ==
    [changed |-> changed, original_profile |-> original_profile, features |-> feats,
     requested_profile |-> requested_profile, rc |-> rc, stderr |-> stderr,
     msg |-> msg, failed |-> failed,
     profile_configured |-> Missing, features_configured |-> Missing]

NoResult == Result(Missing, Missing, Missing, Missing, Missing, Missing, Missing, Missing)

\* result = dict(changed=False, original_profile='', features=[])
seed_result ==
    Result(BoolV(FALSE), StrV(<<>>), ListV(<<>>), Missing, Missing, Missing, Missing, Missing)

\* module.exit_json(**result)
exit_json(result) == [kind |-> "exit_json", result |-> result]

\* module.fail_json(**kwargs): the result is marked failed and the process exits
fail_json(result) == [kind |-> "fail_json", result |-> [result EXCEPT !.failed = BoolV(TRUE)]]

\* an exception nothing catches: the module dies with a traceback, no result
exception(name) == [kind |-> "exception", result |-> NoResult, name |-> name]

NoOutcome == [kind |-> "running", result |-> NoResult]
NoResp == [rc |-> -1, out |-> <<>>, err |-> <<>>]

----------------------------------------------------------------------------
(* get_authselect_state, after run_command has returned (rc, std_out, std_err) *)

\* as get_authselect_state, with the two rc == 2 branches tried in the other order
get_authselect_state_swapped(rc, std_out, std_err) ==
    IF rc = 2 /\ std_err = <<>>
    THEN LET pas_out == ReMatch(std_out)
         IN  IF pas_out = NoneV
             THEN exception("AttributeError")
             ELSE [kind |-> "return",
                   value |-> DictV(StrV(pas_out.profile),
                                   ListV(ReSplit(pas_out.features)),
                                   StrV(OkMsg))]
    ELSE IF rc = 2 /\ std_out = NoConfigLiteral
    THEN [kind |-> "return",
          value |-> DictV(NoneV, NoneV, StrV(RStrip(std_out)))]
    ELSE fail_json([NoResult EXCEPT !.rc = IntV(rc),
                                    !.stderr = StrV(std_err),
                                    !.msg = StrV(FailPrefix \o std_err \o FailSuffix)])

\* as get_authselect_state, with the second branch taken on an empty stderr
\* whatever the exit code
get_authselect_state_anyrc(rc, std_out, std_err) ==
    IF rc = 2 /\ std_out = NoConfigLiteral
    THEN [kind |-> "return",
          value |-> DictV(NoneV, NoneV, StrV(RStrip(std_out)))]
    ELSE IF std_err = <<>>
    THEN LET pas_out == ReMatch(std_out)
         IN  IF pas_out = NoneV
             THEN exception("AttributeError")
             ELSE [kind |-> "return",
                   value |-> DictV(StrV(pas_out.profile),
                                   ListV(ReSplit(pas_out.features)),
                                   StrV(OkMsg))]
    ELSE fail_json([NoResult EXCEPT !.rc = IntV(rc),
                                    !.stderr = StrV(std_err),
                                    !.msg = StrV(FailPrefix \o std_err \o FailSuffix)])

get_authselect_state(rc, std_out, std_err) ==
    IF rc = 2 /\ std_out = NoConfigLiteral
    THEN [kind |-> "return",
          value |-> DictV(NoneV, NoneV, StrV(RStrip(std_out)))]
    ELSE IF rc = 2 /\ std_err = <<>>
    THEN LET pas_out == ReMatch(std_out)
         IN  IF pas_out = NoneV
             THEN exception("AttributeError")     \* None.group('profile')
             ELSE [kind |-> "return",
                   value |-> DictV(StrV(pas_out.profile),
                                  ListV(ReSplit(pas_out.features)),
                                  StrV(OkMsg))]
    ELSE fail_json([NoResult EXCEPT !.rc = IntV(rc),
                                    !.stderr = StrV(std_err),
                                    !.msg = StrV(FailPrefix \o std_err \o FailSuffix)])

\* as run_module_tail, with changed set whenever the profile read is not the
\* requested one, although nothing was applied
run_module_tail_predicts(state, prof) ==
    LET result == [seed_result EXCEPT !.changed = BoolV(state.profile # StrV(prof)),
                                      !.original_profile = state,
                                      !.requested_profile = StrV(prof)]
    IN  IF prof = FailMe
        THEN fail_json([result EXCEPT !.msg = StrV(FailMeMsg)])
        ELSE exit_json(result)

\* run_module from the assignment of original_profile to its end
run_module_tail(state, prof) ==
    LET result == [seed_result EXCEPT !.original_profile = state,
                                      !.requested_profile = StrV(prof)]
    IN  IF prof = FailMe
        THEN fail_json([result EXCEPT !.msg = StrV(FailMeMsg)])
        ELSE exit_json(result)

\* if module.check_mode: module.exit_json(**result)
exits_in_check_mode(cm) == cm

----------------------------------------------------------------------------
(* The host: inputs of the module and answers of the tool *)

Alphabet == {"a", "-", " ", "\n"}

RECURSIVE StringsUpTo(_)
StringsUpTo(n) ==
    IF n = 0 THEN {<<>>}
    ELSE LET shorter == StringsUpTo(n - 1)
         IN  shorter \cup {Append(s, c) : s \in {x \in shorter : Len(x) = n - 1}, c \in Alphabet}

Stdouts == StringsUpTo(MaxLen) \cup {NoConfigLiteral, ExampleStdout, SssdLine, SssdSudoLine, Sssd}
Stderrs == {<<>>, Denied}
ExitCodes == {0, 1, 2}
Stores == [rc : ExitCodes, out : Stdouts, err : Stderrs]

Profiles == {Sssd, <<"a">>, FailMe}
FeatureParams == {NoneV, ListV(<<WithSudo>>)}

----------------------------------------------------------------------------
(* The invocations *)

Init ==
    /\ store \in Stores
    /\ store0 = store
    /\ profile \in Profiles
    /\ features \in FeatureParams
    /\ check_mode \in BOOLEAN
    /\ pc = "start"
    /\ resp = NoResp
    /\ cmds = <<>>
    /\ outcome = NoOutcome
    /\ hist = <<>>

\* as CheckModeExit, with the profile applied before check mode is looked at
CheckModeExit_commits ==
    /\ pc = "start"
    /\ exits_in_check_mode(check_mode)
    /\ cmds' = Append(cmds, <<"/usr/bin/authselect", "select">>)
    /\ outcome' = exit_json(seed_result)
    /\ pc' = "done"
    /\ UNCHANGED <<store, store0, profile, features, check_mode, resp, hist>>

\* run_module in check mode: the seeded result is returned at once
CheckModeExit ==
    /\ pc = "start"
    /\ exits_in_check_mode(check_mode)
    /\ outcome' = exit_json(seed_result)
    /\ pc' = "done"
    /\ UNCHANGED <<store, store0, profile, features, check_mode, resp, cmds, hist>>

\* m.run_command(["/usr/bin/authselect", "current", "--raw"], ...): the tool
\* answers from its store, which the query leaves as it is
RunCommand ==
    /\ pc = "start"
    /\ ~exits_in_check_mode(check_mode)
    /\ cmds' = Append(cmds, QueryArgv)
    /\ resp' = store
    /\ pc' = "queried"
    /\ UNCHANGED <<store, store0, profile, features, check_mode, outcome, hist>>

\* the rest of get_authselect_state and of run_module
Finish ==
    /\ pc = "queried"
    /\ LET state == get_authselect_state(resp.rc, resp.out, resp.err)
       IN  outcome' = IF state.kind = "return"
                      THEN run_module_tail(state.value, profile)
                      ELSE state
    /\ pc' = "done"
    /\ UNCHANGED <<store, store0, profile, features, check_mode, resp, cmds, hist>>

\* the playbook runs the same task again on the same host
NextInvocation ==
    /\ pc = "done"
    /\ Len(hist) < MaxRuns - 1
    /\ hist' = Append(hist, [check_mode |-> check_mode, resp |-> resp,
                             cmds |-> cmds, outcome |-> outcome, store |-> store])
    /\ check_mode' \in BOOLEAN
    /\ pc' = "start"
    /\ resp' = NoResp
    /\ cmds' = <<>>
    /\ outcome' = NoOutcome
    /\ UNCHANGED <<store, store0, profile, features>>

Next == CheckModeExit \/ RunCommand \/ Finish \/ NextInvocation

Spec == Init /\ [][Next]_vars

----------------------------------------------------------------------------
(* Vocabulary of the properties *)

\* the invocations that have ended, oldest first
Fin ==
    IF pc = "done"
    THEN Append(hist, [check_mode |-> check_mode, resp |-> resp, cmds |-> cmds,
                       outcome |-> outcome, store |-> store])
    ELSE hist

\* a mutating command: any external command other than the read-only query
IsCommit(argv) == argv # QueryArgv
Committed(r) == \E i \in DOMAIN r.cmds : IsCommit(r.cmds[i])
Queried(r) == \E i \in DOMAIN r.cmds : r.cmds[i] = QueryArgv

\* what the reader makes of an answer of the tool
ReadOf(a) == get_authselect_state(a.rc, a.out, a.err)

\* the failure the reader reports for a query it cannot use
QueryFailed(o) == o.kind = "fail_json" /\ o.result.rc # Missing

SetOf(l) == {l[i] : i \in DOMAIN l}

\* the difference that calls for an action: no profile, another profile, or
\* requested features that are not the active ones as a set
NeedsAction(before, prof, feats) ==
    \/ before.profile = NoneV
    \/ before.profile # StrV(prof)
    \/ feats # NoneV /\ SetOf(before.features.l) # SetOf(feats.l)

\* the pieces of s between its blanks
RECURSIVE BlankSplit(_, _, _, _)
BlankSplit(s, i, cur, acc) ==
    IF i > Len(s) THEN (IF cur = <<>> THEN acc ELSE Append(acc, cur))
    ELSE IF s[i] = " " THEN BlankSplit(s, i + 1, <<>>, IF cur = <<>> THEN acc ELSE Append(acc, cur))
    ELSE BlankSplit(s, i + 1, Append(cur, s[i]), acc)

Tokens(out) == BlankSplit(SubSeq(out, 1, Len(out) - 1), 1, <<>>, <<>>)

\* a feature name: word characters and hyphens, a word character at both ends
IsFeatureName(tok) ==
    /\ tok # <<>>
    /\ IsWord(tok[1]) /\ IsWord(tok[Len(tok)])
    /\ \A i \in DOMAIN tok : IsWord(tok[i]) \/ tok[i] = "-"

\* one line: a profile token, then blank-separated feature names, then a newline
IsStateLine(out) ==
    /\ Len(out) >= 2
    /\ out[Len(out)] = "\n"
    /\ \A i \in 1..(Len(out) - 1) : out[i] # "\n"
    /\ out[1] # " "
    /\ LET toks == Tokens(out)
       IN  /\ toks # <<>>
           /\ \A i \in DOMAIN toks[1] : IsWord(toks[1][i])
           /\ \A k \in 2..Len(toks) : IsFeatureName(toks[k])

\* a profile token followed by separator characters only
IsBareProfileLine(out) ==
    \E p \in 1..(Len(out) - 1) :
        /\ \A i \in 1..p : IsWord(out[i])
        /\ \A i \in (p + 1)..Len(out) : ~IsWord(out[i])

ProfileToken(out) ==
    LET p == CHOOSE n \in 1..Len(out) :
                 /\ \A i \in 1..n : IsWord(out[i])
                 /\ (n = Len(out) \/ ~IsWord(out[n + 1]))
    IN  SubSeq(out, 1, p)

----------------------------------------------------------------------------
(* Properties *)

\* C1: a non-dry-run invocation whose read succeeded executes the commit and
\* reports changed=true exactly when the prior state is Unconfigured, or its
\* profile is not the desired one, or the desired features are given and are
\* not the prior features as a set; otherwise no commit and changed=false.
C1_CommitIffActionNeeded ==
    \A k \in DOMAIN Fin :
        LET r == Fin[k]
            before == ReadOf(r.resp)
        IN  (~r.check_mode /\ before.kind = "return") =>
                LET needed == NeedsAction(before.value, profile, features)
                IN  /\ Committed(r) <=> needed
                    /\ r.outcome.result.changed = BoolV(needed)

C4_CheckModePredictsChange ==
    \A k \in DOMAIN Fin :
        LET r == Fin[k]
            before == ReadOf(r.store)
        IN  (r.check_mode /\ before.kind = "return"
                 /\ NeedsAction(before.value, profile, features)) =>
                /\ r.outcome.result.changed = BoolV(TRUE)
                /\ Queried(r)

\* C5: exit code 2, empty stderr and a line "profile feature ... feature\n"
\* give Configured with the first token as profile and exactly the feature
\* tokens, hyphenated names whole, as features.
C5_ParsesFeatureTokens ==
    \A k \in DOMAIN Fin :
        LET r == Fin[k]
            toks == Tokens(r.resp.out)
        IN  (~r.check_mode /\ r.resp.rc = 2 /\ r.resp.err = <<>>
                 /\ IsStateLine(r.resp.out) /\ Len(toks) >= 2) =>
                LET st == r.outcome.result.original_profile
                IN  /\ st.t = "dict"
                    /\ st.profile = StrV(toks[1])
                    /\ st.features.t = "list"
                    /\ SetOf(st.features.l) = {toks[i] : i \in 2..Len(toks)}

\* C6: exit code 2 with stdout exactly the "No existing configuration
\* detected." line gives Unconfigured, profile and features absent together,
\* and the invocation does not fail as QueryFailed.
C6_UnconfiguredDetected ==
    \A k \in DOMAIN Fin :
        LET r == Fin[k]
        IN  (~r.check_mode /\ r.resp.rc = 2 /\ r.resp.out = NoConfigLiteral) =>
                LET st == r.outcome.result.original_profile
                IN  /\ r.outcome.kind # "exception"
                    /\ ~QueryFailed(r.outcome)
                    /\ st.t = "dict"
                    /\ st.profile = NoneV
                    /\ st.features = NoneV

\* a run that read the unconfigured line and returned
C6_Witness ==
    /\ pc = "done" /\ ~check_mode
    /\ resp.rc = 2 /\ resp.out = NoConfigLiteral /\ resp.err # <<>>
    /\ outcome.kind = "exit_json"

\* C7: exit code 2 with a stdout that is neither the unconfigured line nor
\* profile, separator, features is reported as QueryFailed with a message:
\* never Unconfigured, never Configured, never a crash.
C7_UnparseableIsQueryFailed ==
    \A k \in DOMAIN Fin :
        LET r == Fin[k]
        IN  (~r.check_mode /\ r.resp.rc = 2 /\ r.resp.err = <<>>
                 /\ r.resp.out # NoConfigLiteral /\ ReMatch(r.resp.out) = NoneV) =>
                /\ QueryFailed(r.outcome)
                /\ r.outcome.result.msg # Missing

\* C8: an exit code other than 2, or exit code 2 with another stdout than the
\* unconfigured line and a non-empty stderr, is QueryFailed with that exit code
\* and that stderr; the invocation ends failed, having issued the one query and
\* no other command.
C8_QueryFailedAborts ==
    \A k \in DOMAIN Fin :
        LET r == Fin[k]
        IN  (~r.check_mode /\ (\/ r.resp.rc # 2
                               \/ r.resp.out # NoConfigLiteral /\ r.resp.err # <<>>)) =>
                /\ QueryFailed(r.outcome)
                /\ r.outcome.result.rc = IntV(r.resp.rc)
                /\ r.outcome.result.stderr = StrV(r.resp.err)
                /\ r.outcome.result.failed = BoolV(TRUE)
                /\ r.outcome.result.original_profile = Missing
                /\ r.cmds = <<QueryArgv>>

\* a run whose query ended with another exit code and an empty stderr
C8_Witness ==
    /\ pc = "done" /\ ~check_mode
    /\ resp.rc = 0 /\ resp.err = <<>> /\ ReMatch(resp.out) # NoneV
    /\ outcome.kind = "fail_json"

\* C9: every result returned on the success path holds in original_profile the
\* profile of the before snapshot read from the tool, an explicit absent value
\* when there is none, and never the empty string.
C9_OriginalProfileIsBeforeProfile ==
    \A k \in DOMAIN Fin :
        LET r == Fin[k]
        IN  r.outcome.kind = "exit_json" =>
                /\ r.outcome.result.original_profile # StrV(<<>>)
                /\ r.outcome.result.original_profile
                       = (IF Queried(r) THEN ReadOf(r.resp).value.profile ELSE NoneV)

\* C10: exit code 2, empty stderr and a profile token followed by separator
\* characters only give Configured with that profile and a feature set of zero
\* elements: not the absent value, and not holding the empty string.
C10_BareProfileHasNoFeatures ==
    \A k \in DOMAIN Fin :
        LET r == Fin[k]
        IN  (~r.check_mode /\ r.resp.rc = 2 /\ r.resp.err = <<>>
                 /\ IsBareProfileLine(r.resp.out)) =>
                LET st == r.outcome.result.original_profile
                IN  /\ st.t = "dict"
                    /\ st.profile = StrV(ProfileToken(r.resp.out))
                    /\ st.features = ListV(<<>>)

====
